---- MODULE Spec2Model ----
(***************************************************************************)
(* Money Muling Detection Engine (chidwilash17/rift).                      *)
(*                                                                         *)
(* Spec        the /api/analyze handler of app/main.py, its three worker   *)
(*             tasks and the reader endpoints, over the process-wide       *)
(*             latest_graph / latest_df / latest_results.                  *)
(* SpecMerge   the two-pass partition merge of analyze_csv.                *)
(* SpecAgent   IBMQuantumAgent.run and its backend chain.                  *)
(* SpecGreedy  _classical_greedy_maxcut and _compute_maxcut_value.         *)
(* SpecJob     _get_graph_edges and _process_counts on one backend job.    *)
(* SpecParse   parse_csv and what analyze_csv does with what it returns.   *)
(* SpecViz     _build_graph_viz_data, loop by loop.                        *)
(***************************************************************************)
EXTENDS Integers, Sequences, FiniteSets, TLC

\* ------------------------------------------------------------------ bounds
\* analyze requests one behaviour holds
MaxRuns == 2
\* entries in the quantum_results list of one QuantumAgent pass
MaxEntries == 2
\* nodes of the graphs the classical baseline is run on
MaxNodes == 3
\* member accounts of the ring handed to IBMQuantumAgent
MaxMembers == 9
\* member accounts of the capped list one backend job is run on
MaxQubits == 5
\* distinct bitstrings in the counts of one backend job
MaxSamples == 22
\* data rows of an uploaded CSV file
MaxRows == 3
\* nodes of the graph handed to _build_graph_viz_data
MaxVizNodes == 3
\* largest value the environment sets the two visualisation caps to
MaxVizCap == 3

VARIABLES
    \* ---- app/main.py: module state and the analyze handler
    latest_graph,     \* run whose graph is stored, 0 = None
    latest_df,        \* run whose dataframe is stored, 0 = None
    latest_results,   \* the stored final_output: its run (0 = {}) and whether it has rings
    ibm_token,        \* IBM_QUANTUM_TOKEN is set
    pc,               \* position of the analyze handler
    run,              \* number of the analyze request in flight (or the last one)
    task,             \* the three futures of the ThreadPoolExecutor
    rings,            \* graph_results["rings"] is non-empty
    fraud_rings,      \* final_output["fraud_rings"] is non-empty
    ibm_result,       \* step 8: "unset", "none", "result", "raised"
    resp,             \* status the last analyze request answered with, 0 = none yet
    entry,            \* the latest state as it was when the request came in
    log,              \* stages of the request in flight, in the order they happened
    rpc,              \* position of a reader handler across its await
    rlast,            \* what the last reader answered and what it read
    \* ---- app/main.py: the two-pass partition merge of analyze_csv
    rings_found,      \* graph_results.get("rings") is non-empty
    first_pass,       \* quantum_results as the parallel pass returned it
    q2,               \* result of the second pass, qa2.run()
    quantum_results,  \* quantum_results, merged in place
    mpc,              \* "start", then "merged"
    \* ---- ibm_quantum_agent.py: _classical_greedy_maxcut(n, edges)
    gn,               \* n
    gedges,           \* edges
    partition,        \* the list partition, index 1 for node 0
    gi,               \* nodes assigned so far: the loop has run for i < gi
    before,           \* partition as it was before the latest assignment
    classical,        \* the pair returned: <<bs, cut>>, <<>> before the return
    \* ---- ibm_quantum_agent.py: IBMQuantumAgent
    top_ring,         \* self.top_ring: member_accounts, risk_score
    self_G,           \* self.G, as the list G.edges() yields
    env,              \* IBM_QUANTUM_TOKEN set, IBM_RUNTIME_AVAILABLE, QISKIT_AVAILABLE
    apc,              \* position in run()
    ibm_connected,    \* what _connect() returned
    tried,            \* _run_on_ibm, _run_on_aer, _fallback_result, in the order called
    succeeded,        \* the backends that delivered a result
    counts,           \* the counts the last backend job returned
    result,           \* what run() returned, NoResult before
    \* ---- ibm_quantum_agent.py: one job, _run_on_ibm / _run_on_aer
    job_members,      \* members, the capped list
    job_risk_score,   \* risk_score
    job_G,            \* self.G, as the list G.edges() yields
    job_hardware,     \* "real" in _run_on_ibm, "simulator" in _run_on_aer
    job_edges,        \* edges, the cost graph
    job_counts,       \* counts, as the backend returned them
    job_result,       \* what _process_counts returned
    job_pc,           \* "edges", "job", then "done" or "no_edges"
    \* ---- csv_parser.py: parse_csv
    file_content,     \* the uploaded file
    parsed,           \* what parse_csv returned or raised, NotParsed before
    \* ---- app/main.py: _build_graph_viz_data(G, results)
    viz_G,                \* G: its nodes and its edges
    suspicious_ids,       \* the account ids of results["suspicious_accounts"]
    MAX_GRAPH_VIZ_NODES,  \* read from the environment at import
    MAX_GRAPH_VIZ_EDGES,  \* read from the environment at import
    include_nodes,        \* include_nodes
    viz_todo,             \* what the node loop at hand is still to yield
    viz_nbs,              \* predecessors and successors of the current node still to come
    edge_todo,            \* what G.edges(data=True) is still to yield
    viz_edges,            \* edges, the list of the payload
    vpc                   \* position in _build_graph_viz_data

pipeVars == <<latest_graph, latest_df, latest_results, ibm_token, pc, run, task,
              rings, fraud_rings, ibm_result, resp, entry, log, rpc, rlast>>

mergeVars == <<rings_found, first_pass, q2, quantum_results, mpc>>

greedyVars == <<gn, gedges, partition, gi, before, classical>>

agentVars == <<top_ring, self_G, env, apc, ibm_connected, tried, succeeded, counts, result>>

jobVars == <<job_members, job_risk_score, job_G, job_hardware, job_edges, job_counts,
             job_result, job_pc>>

parseVars == <<file_content, parsed>>

vizVars == <<viz_G, suspicious_ids, MAX_GRAPH_VIZ_NODES, MAX_GRAPH_VIZ_EDGES, include_nodes,
             viz_todo, viz_nbs, edge_todo, viz_edges, vpc>>

vars == <<pipeVars, mergeVars, greedyVars, agentVars, jobVars, parseVars, vizVars>>

\* what each part leaves alone
notPipe == <<mergeVars, greedyVars, agentVars, jobVars, parseVars, vizVars>>

notMerge == <<pipeVars, greedyVars, agentVars, jobVars, parseVars, vizVars>>

notGreedy == <<pipeVars, mergeVars, agentVars, jobVars, parseVars, vizVars>>

notAgent == <<pipeVars, mergeVars, greedyVars, jobVars, parseVars, vizVars>>

notJob == <<pipeVars, mergeVars, greedyVars, agentVars, parseVars, vizVars>>

notViz == <<pipeVars, mergeVars, greedyVars, agentVars, jobVars, parseVars>>

\* ------------------------------------------------------------ app/main.py

Tasks == {"graph", "ml", "quantum"}

Latest == <<latest_graph, latest_df, latest_results>>

\* latest_results = {}
NoResults == [run |-> 0, rings |-> FALSE]

NoReply == [ep |-> "none", code |-> 0, g |-> 0, d |-> 0, r |-> 0, nodes |-> "none"]

\* The handlers are coroutines of one event loop: a handler runs from one await
\* to the next without another handler in between.  analyze_csv awaits only
\* file.read(); from parse_csv to its return it holds the loop.
LoopFree == pc \in {"idle", "reading"}

InitPipe ==
    /\ latest_graph = 0
    /\ latest_df = 0
    /\ latest_results = NoResults
    /\ ibm_token \in BOOLEAN
    /\ pc = "idle"
    /\ run = 0
    /\ task = [t \in Tasks |-> "none"]
    /\ rings = FALSE
    /\ fraud_rings = FALSE
    /\ ibm_result = "unset"
    /\ resp = 0
    /\ entry = <<0, 0, NoResults>>
    /\ log = <<>>
    /\ rpc = "idle"
    /\ rlast = NoReply

\* the handlers at rest, for the specifications of the pure parts
PipeIdle == InitPipe /\ ibm_token = FALSE

\* except ValueError -> 400, except Exception -> 500; nothing is rolled back
Fail(code) ==
    /\ pc' = "idle"
    /\ resp' = code

\* file.read() is awaited: other handlers run meanwhile
Receive ==
    /\ UNCHANGED notPipe
    /\ pc = "idle"
    /\ run < MaxRuns
    /\ pc' = "reading"
    /\ run' = run + 1
    /\ entry' = Latest
    /\ resp' = 0
    /\ log' = <<>>
    /\ task' = [t \in Tasks |-> "none"]
    /\ rings' = FALSE
    /\ fraud_rings' = FALSE
    /\ ibm_result' = "unset"
    /\ UNCHANGED <<latest_graph, latest_df, latest_results, ibm_token, rpc, rlast>>

\* decode + parse_csv; on success the graph and the dataframe are stored at once
\* and the three tasks are submitted
ParseOutcome(outcome) ==
    /\ \/ /\ outcome = "ok"
          /\ latest_graph' = run
          /\ latest_df' = run
          /\ task' = [t \in Tasks |-> "running"]
          /\ pc' = "join_graph"
          /\ log' = Append(log, "submitted")
          /\ UNCHANGED resp
       \/ /\ outcome = "ValueError"
          /\ Fail(400)
          /\ UNCHANGED <<latest_graph, latest_df, task, log>>
       \/ /\ outcome = "Exception"
          /\ Fail(500)
          /\ UNCHANGED <<latest_graph, latest_df, task, log>>
    /\ UNCHANGED <<latest_results, ibm_token, run, rings, fraud_rings, ibm_result,
                   entry, rpc, rlast>>

\* lines 112-121, whatever the file holds
ParseAndSubmit ==
    /\ UNCHANGED notPipe
    /\ pc = "reading"
    /\ \E outcome \in {"ok", "ValueError", "Exception"} : ParseOutcome(outcome)

\* a worker thread finishes its task, with a value or with an exception; the
\* graph task's value says whether rings were found
TaskDone(t) ==
    /\ UNCHANGED notPipe
    /\ task[t] = "running"
    /\ \E outcome \in {"ok", "raised"}, found \in BOOLEAN :
          /\ task' = [task EXCEPT ![t] = outcome]
          /\ rings' = IF t = "graph" /\ outcome = "ok" THEN found ELSE rings
          /\ (t # "graph" \/ outcome # "ok") => ~found
    /\ log' = Append(log, t \o "_" \o (CHOOSE o \in {"ok", "raised"} : task'[t] = o))
    /\ UNCHANGED <<latest_graph, latest_df, latest_results, ibm_token, pc, run,
                   fraud_rings, ibm_result, resp, entry, rpc, rlast>>

\* f.result(): blocks until the task is done, returns its value or re-raises its
\* exception; the exception leaves the with block, whose exit waits for the pool
JoinResult(t, next) ==
    /\ UNCHANGED notPipe
    /\ pc = "join_" \o t
    /\ task[t] # "running"
    /\ pc' = IF task[t] = "ok" THEN next ELSE "unwind"
    /\ log' = Append(log, t \o "_joined")
    /\ UNCHANGED <<latest_graph, latest_df, latest_results, ibm_token, run, task,
                   rings, fraud_rings, ibm_result, resp, entry, rpc, rlast>>

\* mutant: a join that does not wait for its future
JoinQuantumNoWait ==
    /\ UNCHANGED notPipe
    /\ pc = "join_quantum"
    /\ pc' = IF task["quantum"] = "raised" THEN "unwind" ELSE "second_pass"
    /\ log' = Append(log, "quantum_joined")
    /\ UNCHANGED <<latest_graph, latest_df, latest_results, ibm_token, run, task,
                   rings, fraud_rings, ibm_result, resp, entry, rpc, rlast>>

JoinGraph == JoinResult("graph", "join_ml")

JoinMl == JoinResult("ml", "join_quantum")

JoinQuantum == JoinResult("quantum", "second_pass")

\* ThreadPoolExecutor.__exit__ : shutdown(wait=True), then the exception reaches
\* except Exception
Unwind ==
    /\ UNCHANGED notPipe
    /\ pc = "unwind"
    /\ \A t \in Tasks : task[t] # "running"
    /\ Fail(500)
    /\ UNCHANGED <<latest_graph, latest_df, latest_results, ibm_token, run, task,
                   rings, fraud_rings, ibm_result, entry, log, rpc, rlast>>

\* one sequential stage of the handler: it runs, and either hands over to the
\* next stage or raises
Stage(at, name, next) ==
    /\ pc = at
    /\ \E ok \in BOOLEAN :
          IF ok
          THEN /\ pc' = next
               /\ log' = log \o <<name \o "_start", name \o "_done">>
               /\ UNCHANGED resp
          ELSE /\ Fail(500)
               /\ log' = Append(log, name \o "_start")

\* the second QuantumAgent pass and its merge, only when rings were found
SecondPass ==
    /\ UNCHANGED notPipe
    /\ IF rings
       THEN Stage("second_pass", "second_pass", "aggregate")
       ELSE /\ pc = "second_pass"
            /\ pc' = "aggregate"
            /\ UNCHANGED <<resp, log>>
    /\ UNCHANGED <<latest_graph, latest_df, latest_results, ibm_token, run, task,
                   rings, fraud_rings, ibm_result, entry, rpc, rlast>>

\* AggregatorAgent.run(): final_output, with or without fraud rings
Aggregate ==
    /\ UNCHANGED notPipe
    /\ Stage("aggregate", "aggregate", "disrupt")
    /\ \E fr \in BOOLEAN : fraud_rings' = (fr /\ pc' = "disrupt")
    /\ UNCHANGED <<latest_graph, latest_df, latest_results, ibm_token, run, task,
                   rings, ibm_result, entry, rpc, rlast>>

Disrupt ==
    /\ UNCHANGED notPipe
    /\ Stage("disrupt", "disrupt", "crime_team")
    /\ UNCHANGED <<latest_graph, latest_df, latest_results, ibm_token, run, task,
                   rings, fraud_rings, ibm_result, entry, rpc, rlast>>

CrimeTeamStep ==
    /\ UNCHANGED notPipe
    /\ Stage("crime_team", "crime_team", "ibm")
    /\ UNCHANGED <<latest_graph, latest_df, latest_results, ibm_token, run, task,
                   rings, fraud_rings, ibm_result, entry, rpc, rlast>>

\* step 8: IBMQuantumAgent on the top ring, inside its own try/except
IbmStep ==
    /\ UNCHANGED notPipe
    /\ pc = "ibm"
    /\ IF fraud_rings /\ ibm_token
       THEN \E outcome \in {"result", "raised"} :
               /\ ibm_result' = outcome
               /\ log' = log \o <<"ibm_start", "ibm_" \o outcome>>
       ELSE /\ ibm_result' = "none"
            /\ UNCHANGED log
    /\ pc' = "viz"
    /\ UNCHANGED <<latest_graph, latest_df, latest_results, ibm_token, run, task,
                   rings, fraud_rings, resp, entry, rpc, rlast>>

\* step 9: _build_graph_viz_data
Viz ==
    /\ UNCHANGED notPipe
    /\ Stage("viz", "viz", "store")
    /\ UNCHANGED <<latest_graph, latest_df, latest_results, ibm_token, run, task,
                   rings, fraud_rings, ibm_result, entry, rpc, rlast>>

\* latest_results = final_output
Store ==
    /\ UNCHANGED notPipe
    /\ pc = "store"
    /\ latest_results' = [run |-> run, rings |-> fraud_rings]
    /\ pc' = "respond"
    /\ log' = Append(log, "stored")
    /\ UNCHANGED <<latest_graph, latest_df, ibm_token, run, task, rings, fraud_rings,
                   ibm_result, resp, entry, rpc, rlast>>

\* the summary log line and JSONResponse(content=final_output), still inside the try
Respond ==
    /\ UNCHANGED notPipe
    /\ pc = "respond"
    /\ \E code \in {200, 400, 500} :
          /\ pc' = "idle"
          /\ resp' = code
          /\ log' = log \o (IF code = 200 THEN <<"respond_start", "respond_done">>
                                         ELSE <<"respond_start">>)
    /\ UNCHANGED <<latest_graph, latest_df, latest_results, ibm_token, run, task,
                   rings, fraud_rings, ibm_result, entry, rpc, rlast>>

\* ---- the reader endpoints

\* a reader answers: its status, the graph, dataframe and results its work was
\* given, and the "nodes" of the request body when it read them
Answer(ep, code, g, d, r, nodes) ==
    /\ rlast' = [ep |-> ep, code |-> code, g |-> g, d |-> d, r |-> r, nodes |-> nodes]
    /\ UNCHANGED <<latest_graph, latest_df, latest_results, ibm_token, pc, run, task,
                   rings, fraud_rings, ibm_result, resp, entry, log>>

Reply(ep, code, g, d, r) == Answer(ep, code, g, d, r, "none")

Await(ep) ==
    /\ rpc' = ep
    /\ UNCHANGED <<latest_graph, latest_df, latest_results, ibm_token, pc, run, task,
                   rings, fraud_rings, ibm_result, resp, entry, log, rlast>>

download_json ==
    /\ UNCHANGED notPipe
    /\ LoopFree /\ rpc = "idle"
    /\ IF latest_results = NoResults
       THEN Reply("download", 404, 0, 0, 0)
       ELSE Reply("download", 200, 0, 0, latest_results.run)
    /\ UNCHANGED rpc

\* whatif_simulate up to its await of request.json()
WhatIfCheck ==
    /\ UNCHANGED notPipe
    /\ LoopFree /\ rpc = "idle"
    /\ IF latest_graph = 0 \/ latest_results = NoResults
       THEN Reply("whatif", 400, 0, 0, 0) /\ UNCHANGED rpc
       ELSE Await("whatif")

\* WhatIfSimulator(G, df, fraud_rings, suspicious_accounts).simulate(nodes): it
\* works on what it is given and changes none of it
simulate(G, df, results) == [g |-> G, d |-> df, r |-> results]

\* mutant: an empty "nodes" is simulated like any other
WhatIfBodyNoCheck ==
    /\ UNCHANGED notPipe
    /\ LoopFree /\ rpc = "whatif"
    /\ rpc' = "idle"
    /\ \E nodes_to_remove \in {"empty", "some"} :
          Answer("whatif", 200, latest_graph, latest_df, latest_results.run, nodes_to_remove)

\* mutant: the handler keeps the graph the simulation has cut down
WhatIfBodyStoresGraph ==
    /\ UNCHANGED notPipe
    /\ LoopFree /\ rpc = "whatif"
    /\ rpc' = "idle"
    /\ \E nodes_to_remove \in {"empty", "some"} :
          /\ rlast' = IF nodes_to_remove = "empty"
                      THEN [ep |-> "whatif", code |-> 400, g |-> 0, d |-> 0, r |-> 0,
                            nodes |-> nodes_to_remove]
                      ELSE [ep |-> "whatif", code |-> 200, g |-> latest_graph,
                            d |-> latest_df, r |-> latest_results.run,
                            nodes |-> nodes_to_remove]
          /\ latest_graph' = IF nodes_to_remove = "empty" THEN latest_graph ELSE -1
    /\ UNCHANGED <<latest_df, latest_results, ibm_token, pc, run, task, rings,
                   fraud_rings, ibm_result, resp, entry, log>>

\* whatif_simulate after it: the simulator gets the graph, the dataframe and the
\* results stored now
WhatIfBody ==
    /\ UNCHANGED notPipe
    /\ LoopFree /\ rpc = "whatif"
    /\ rpc' = "idle"
    /\ \E nodes_to_remove \in {"empty", "some"} :
          IF nodes_to_remove = "empty"
          THEN Answer("whatif", 400, 0, 0, 0, nodes_to_remove)
          ELSE LET out == simulate(latest_graph, latest_df, latest_results.run)
               IN  Answer("whatif", 200, out.g, out.d, out.r, nodes_to_remove)

RunIbmCheck ==
    /\ UNCHANGED notPipe
    /\ LoopFree /\ rpc = "idle"
    /\ IF latest_results = NoResults
       THEN Reply("ibm", 400, 0, 0, 0) /\ UNCHANGED rpc
       ELSE Await("ibm")

RunIbmBody ==
    /\ UNCHANGED notPipe
    /\ LoopFree /\ rpc = "ibm"
    /\ rpc' = "idle"
    /\ IF ~latest_results.rings
       THEN Reply("ibm", 400, 0, 0, 0)
       ELSE Reply("ibm", 200, latest_graph, 0, latest_results.run)

WebhookAwait ==
    /\ UNCHANGED notPipe
    /\ LoopFree /\ rpc = "idle"
    /\ Await("webhook")

WebhookBody ==
    /\ UNCHANGED notPipe
    /\ LoopFree /\ rpc = "webhook"
    /\ rpc' = "idle"
    /\ Reply("webhook", 200, 0, 0, latest_results.run)

Next ==
    \/ Receive
    \/ ParseAndSubmit
    \/ \E t \in Tasks : TaskDone(t)
    \/ JoinGraph
    \/ JoinMl
    \/ JoinQuantum
    \/ Unwind
    \/ SecondPass
    \/ Aggregate
    \/ Disrupt
    \/ CrimeTeamStep
    \/ IbmStep
    \/ Viz
    \/ Store
    \/ Respond
    \/ download_json
    \/ WhatIfCheck
    \/ WhatIfBody
    \/ RunIbmCheck
    \/ RunIbmBody
    \/ WebhookAwait
    \/ WebhookBody

\* ------------------------- app/main.py: the two-pass merge (lines 150-166)

RingIds == {1, 2}

Accounts == {1, 2}

\* an entry of quantum_results: its ring, its n_qubits (0: never evaluated on a
\* circuit), and the pass that produced it
Entries(pass) == [ring_id : RingIds, n_qubits : {0, 3}, pass : {pass}]

SeqsUpTo(S, n) == UNION {[1..k -> S] : k \in 0..n}

PartialFns(D, R) == UNION {[X -> R] : X \in SUBSET D}

PassResults(pass, scores) ==
    [qr : SeqsUpTo(Entries(pass), MaxEntries), qs : PartialFns(Accounts, scores)]

EmptyPass == [qr |-> <<>>, qs |-> <<>>]

InitMerge ==
    /\ rings_found \in BOOLEAN
    /\ first_pass \in PassResults(1, {50, 72})
    /\ q2 \in IF rings_found THEN PassResults(2, {50}) ELSE {EmptyPass}
    /\ quantum_results = first_pass
    /\ mpc = "start"

RingIdsOf(qr) == {qr[i].ring_id : i \in 1..Len(qr)}

\* mutant: the n_qubits test of line 160 dropped
RECURSIVE MergeEntriesAnyFrom(_, _, _)
MergeEntriesAnyFrom(list, rest, k) ==
    IF k > Len(rest) THEN list
    ELSE MergeEntriesAnyFrom(
            IF rest[k].ring_id \notin RingIdsOf(list) THEN Append(list, rest[k]) ELSE list,
            rest, k + 1)

MergeEntriesAny(list, rest) == MergeEntriesAnyFrom(list, rest, 1)

\* lines 158-162: existing_ring_ids is the set of ring ids of the list so far
RECURSIVE MergeEntriesFrom(_, _, _)
MergeEntriesFrom(list, rest, k) ==
    IF k > Len(rest) THEN list
    ELSE MergeEntriesFrom(
            IF rest[k].ring_id \notin RingIdsOf(list) /\ rest[k].n_qubits = 0
            THEN Append(list, rest[k])
            ELSE list,
            rest, k + 1)

MergeEntries(list, rest) == MergeEntriesFrom(list, rest, 1)

\* mutant: the second pass overwrites
MergeScoresOverwrite(qs, more) ==
    [a \in DOMAIN qs \cup DOMAIN more |-> IF a \in DOMAIN more THEN more[a] ELSE qs[a]]

\* lines 164-166
MergeScores(qs, more) ==
    [a \in DOMAIN qs \cup DOMAIN more |-> IF a \in DOMAIN qs THEN qs[a] ELSE more[a]]

\* lines 150-166
MergePasses ==
    /\ mpc = "start"
    /\ mpc' = "merged"
    /\ quantum_results' =
          IF rings_found
          THEN [qr |-> MergeEntries(quantum_results.qr, q2.qr),
                qs |-> MergeScores(quantum_results.qs, q2.qs)]
          ELSE quantum_results
    /\ UNCHANGED <<rings_found, first_pass, q2>>
    /\ UNCHANGED notMerge

MergeIdle ==
    /\ rings_found = FALSE
    /\ first_pass = EmptyPass
    /\ q2 = EmptyPass
    /\ quantum_results = EmptyPass
    /\ mpc = "off"

\* ------------------------------------------- app/agents/ibm_quantum_agent.py
\* Python's 0-based qubit indices are 1-based here: node i of the source is i + 1.

Min(a, b) == IF a <= b THEN a ELSE b

Max(a, b) == IF a >= b THEN a ELSE b

\* the pairs of a set in the order G.edges() yields them for nodes added in
\* ascending order
PairLess(e, f) == e[1] < f[1] \/ (e[1] = f[1] /\ e[2] < f[2])

EdgeSeq(S) ==
    [i \in 1..Cardinality(S) |->
        CHOOSE e \in S : Cardinality({f \in S : PairLess(f, e)}) = i - 1]

InSeq(x, sq) == \E k \in 1..Len(sq) : sq[k] = x

\* idx = {acc: i for i, acc in enumerate(members)}
Idx(members, acc) ==
    CHOOSE i \in 1..Len(members) :
        members[i] = acc /\ \A j \in 1..Len(members) : members[j] = acc => j <= i

\* _get_graph_edges, lines 76-79: the edges of G between two members, as index pairs
RECURSIVE MemberEdgesFrom(_, _, _, _)
MemberEdgesFrom(members, G, k, acc) ==
    IF k > Len(G) THEN acc
    ELSE MemberEdgesFrom(members, G, k + 1,
            IF InSeq(G[k][1], members) /\ InSeq(G[k][2], members)
            THEN Append(acc, <<Idx(members, G[k][1]), Idx(members, G[k][2])>>)
            ELSE acc)

MemberEdges(members, G) == MemberEdgesFrom(members, G, 1, <<>>)

\* lines 81-83: the reverse of every edge, unless it is there already
RECURSIVE WithReverseFrom(_, _, _)
WithReverseFrom(edges, k, acc) ==
    IF k > Len(edges) THEN acc
    ELSE WithReverseFrom(edges, k + 1,
            IF InSeq(<<edges[k][2], edges[k][1]>>, acc)
            THEN acc
            ELSE Append(acc, <<edges[k][2], edges[k][1]>>))

WithReverse(edges) == WithReverseFrom(edges, 1, edges)

EdgeKey(e) == <<Min(e[1], e[2]), Max(e[1], e[2])>>

\* lines 85-92: the first edge of every key (min, max)
RECURSIVE DeduplicateFrom(_, _, _)
DeduplicateFrom(edges, k, acc) ==
    IF k > Len(edges) THEN acc
    ELSE DeduplicateFrom(edges, k + 1,
            IF \E j \in 1..Len(acc) : EdgeKey(acc[j]) = EdgeKey(edges[k])
            THEN acc
            ELSE Append(acc, edges[k]))

Deduplicate(edges) == DeduplicateFrom(edges, 1, <<>>)

_get_graph_edges(members, G) == Deduplicate(WithReverse(MemberEdges(members, G)))

\* number of list entries flagged TRUE
CountEdges(flags) == Cardinality({k \in 1..Len(flags) : flags[k]})

\* _compute_maxcut_value: bitstring[u] != bitstring[v]
_compute_maxcut_value(bitstring, edges) ==
    LET Cut(e) == bitstring[e[1]] # bitstring[e[2]]
    IN  CountEdges([k \in 1..Len(edges) |-> Cut(edges[k])])

\* lines 109-112: the edges at node i whose other end is on side b now
CutsAt(part, i, b, edges) ==
    LET T(e) == (e[1] = i /\ part[e[2]] = b) \/ (e[2] = i /\ part[e[1]] = b)
    IN  CountEdges([k \in 1..Len(edges) |-> T(edges[k])])

\* mutant: the side opposite to the one line 113 picks
GreedySideOpposite(part, i, edges) ==
    IF CutsAt(part, i, 1, edges) > CutsAt(part, i, 0, edges) THEN 0 ELSE 1

\* mutant: only the edges listed as leaving node i are looked at
GreedySideByTail(part, i, edges) ==
    IF \E k \in 1..Len(edges) : edges[k][1] = i /\ part[edges[k][2]] = 0 THEN 1 ELSE 0

\* line 113: partition[i] = 1 if cuts_1 > cuts_0 else 0
GreedySide(part, i, edges) ==
    IF CutsAt(part, i, 1, edges) > CutsAt(part, i, 0, edges) THEN 1 ELSE 0

\* one pass of the loop of lines 107-113
GreedyAssign(part, i, edges) == [part EXCEPT ![i] = GreedySide(part, i, edges)]

\* _classical_greedy_maxcut: <<bs, cut>>
RECURSIVE GreedyFrom(_, _, _, _)
GreedyFrom(n, edges, i, part) ==
    IF i > n THEN part ELSE GreedyFrom(n, edges, i + 1, GreedyAssign(part, i, edges))

_classical_greedy_maxcut(n, edges) ==
    LET bs == GreedyFrom(n, edges, 1, [j \in 1..n |-> 0])
    IN  <<bs, _compute_maxcut_value(bs, edges)>>

\* ---- _classical_greedy_maxcut step by step

DirectedGraphs(n) == SUBSET ((1..n) \X (1..n))

NodeSeq(n) == [j \in 1..n |-> j]

InitGreedy ==
    /\ gn \in 0..MaxNodes
    /\ gedges \in {_get_graph_edges(NodeSeq(gn), EdgeSeq(G)) : G \in DirectedGraphs(gn)}
    /\ partition = [j \in 1..gn |-> 0]
    /\ gi = 0
    /\ before = partition
    /\ classical = <<>>

\* line 107-113, one node
GreedyStep ==
    /\ gi < gn
    /\ classical = <<>>
    /\ before' = partition
    /\ partition' = GreedyAssign(partition, gi + 1, gedges)
    /\ gi' = gi + 1
    /\ UNCHANGED <<gn, gedges, classical>>
    /\ UNCHANGED notGreedy

\* lines 114-115
GreedyReturn ==
    /\ gi = gn
    /\ classical = <<>>
    /\ classical' = <<partition, _compute_maxcut_value(partition, gedges)>>
    /\ UNCHANGED <<gn, gedges, partition, gi, before>>
    /\ UNCHANGED notGreedy

GreedyIdle ==
    /\ gn = 0
    /\ gedges = <<>>
    /\ partition = <<>>
    /\ gi = 0
    /\ before = <<>>
    /\ classical = <<>>

\* ---- IBMQuantumAgent._process_counts
\* A bitstring is a sequence of 0 and 1; counts is the dict of a backend as the
\* list of its items, [bs, cnt], in the dict's order.  Scores and percentages
\* are kept in hundredths (50.0 is 5000), rounded as round(x, 2) rounds an exact x.

MAX_QUBITS_REAL == 5

MAX_QUBITS_SIM == 8

TopBest == 20

TopDominant == 10

\* round(a / b) for b > 0, a tie going to the even neighbour
RoundDiv(a, b) ==
    LET q == a \div b
        r == a - q * b
    IN  IF 2 * r < b THEN q
        ELSE IF 2 * r > b THEN q + 1
        ELSE IF q % 2 = 0 THEN q ELSE q + 1

\* mutant: the list is not cut
PrefixWhole(sq, k) == sq

\* members[:k]
Prefix(sq, k) == SubSeq(sq, 1, Min(k, Len(sq)))

\* bs.replace(' ', '').zfill(n)[-n:]
Clean(bs, n) ==
    LET pad == IF Len(bs) < n THEN [j \in 1..(n - Len(bs)) |-> 0] ELSE <<>>
        padded == pad \o bs
    IN  SubSeq(padded, Len(padded) - n + 1, Len(padded))

\* sorted(counts.items(), key=lambda x: x[1], reverse=True): stable
SortedCounts(c) ==
    LET rank == [i \in 1..Len(c) |->
                    Cardinality({j \in 1..Len(c) :
                        c[j].cnt > c[i].cnt \/ (c[j].cnt = c[i].cnt /\ j < i)}) + 1]
    IN  [r \in 1..Len(c) |-> c[CHOOSE i \in 1..Len(c) : rank[i] = r]]

\* lines 309-317: the first of the top samples with the highest cut
RECURSIVE BestFrom(_, _, _, _, _)
BestFrom(top, n, edges, k, best) ==
    IF k > Len(top) THEN best
    ELSE LET bs_clean == Clean(top[k].bs, n)
             cut == _compute_maxcut_value(bs_clean, edges)
         IN  BestFrom(top, n, edges, k + 1,
                 IF cut > best.cut THEN [bs |-> bs_clean, cut |-> cut] ELSE best)

\* mutant: every sample is looked at, not the first 20
BestPartitionAll(sorted_counts, n, edges) ==
    BestFrom(sorted_counts, n, edges, 1, [bs |-> <<>>, cut |-> -1])

BestPartition(sorted_counts, n, edges) ==
    BestFrom(Prefix(sorted_counts, TopBest), n, edges, 1, [bs |-> <<>>, cut |-> -1])

RECURSIVE GroupFrom(_, _, _, _, _, _)
GroupFrom(members, bs, b, n, i, acc) ==
    IF i > n THEN acc
    ELSE GroupFrom(members, bs, b, n, i + 1,
            IF bs[i] = b THEN Append(acc, members[i]) ELSE acc)

\* mutant: range(n - 1)
GroupSkipLast(members, bs, b) == GroupFrom(members, bs, b, Len(members) - 1, 1, <<>>)

\* lines 320-321: [members[i] for i in range(n) if best_bs[i] == b]
Group(members, bs, b) == GroupFrom(members, bs, b, Len(members), 1, <<>>)

SeqSet(sq) == {sq[k] : k \in 1..Len(sq)}

\* sum of the counts of the flagged entries
RECURSIVE SumCnt(_, _, _)
SumCnt(c, keep, k) ==
    IF k = 0 THEN 0 ELSE SumCnt(c, keep, k - 1) + (IF keep[k] THEN c[k].cnt ELSE 0)

\* mutant: a tie goes to group_0
DominantIsGroup1Strict(group_0, group_1) == Len(group_1) > Len(group_0)

\* line 343: dominant_group is group_1 if len(group_1) >= len(group_0)
DominantIsGroup1(group_0, group_1) == Len(group_1) >= Len(group_0)

\* mutant: the probability mass is left out
DominantScoreNoMass(risk_score, dominant_mass, total) ==
    RoundDiv(Min(90 * risk_score * total, 10000 * total), total)

\* line 353: round(min(risk_score * 0.9 + dominant_prob * 10, 100), 2), where
\* dominant_prob is dominant_mass / total
DominantScore(risk_score, dominant_mass, total) ==
    RoundDiv(Min(90 * risk_score * total + 1000 * dominant_mass, 10000 * total), total)

\* mutant: the weight of the dominant group
MinorityScoreHeavy(risk_score) == Min(95 * risk_score, 10000)

\* line 355: round(min(risk_score * 0.6, 100), 2)
MinorityScore(risk_score) == Min(60 * risk_score, 10000)

\* mutant: the difference is divided by one more than the number of edges
QuantumAdvantageOneMore(best_cut, classical_cut, max_possible_cut) ==
    RoundDiv((best_cut - classical_cut) * 10000, max_possible_cut + 1)

\* lines 326-328: round((best_cut - classical_cut) / max(max_possible_cut, 1) * 100, 2)
QuantumAdvantage(best_cut, classical_cut, max_possible_cut) ==
    RoundDiv((best_cut - classical_cut) * 10000, Max(max_possible_cut, 1))

\* what _process_counts gives when it raises
TypeError == [error |-> "TypeError"]

\* _process_counts; it raises when counts is empty (best_bs is None on line 320)
_process_counts(c, members, risk_score, edges, hardware) ==
    IF c = <<>> THEN TypeError
    ELSE
    LET n == Len(members)
        total == SumCnt(c, [k \in 1..Len(c) |-> TRUE], Len(c))
        sorted_counts == SortedCounts(c)
        best == BestPartition(sorted_counts, n, edges)
        group_0 == Group(members, best.bs, 0)
        group_1 == Group(members, best.bs, 1)
        cl == _classical_greedy_maxcut(n, edges)
        max_possible_cut == Len(edges)
        IsBest(x) == Clean(x.bs, n) = best.bs
        top == Prefix(sorted_counts, TopDominant)
        dominant_mass == SumCnt(top, [k \in 1..Len(top) |-> IsBest(top[k])], Len(top))
        dominant_is_1 == DominantIsGroup1(group_0, group_1)
        dominant_group == IF dominant_is_1 THEN group_1 ELSE group_0
        minority_group == IF dominant_is_1 THEN group_0 ELSE group_1
        dominant_score == DominantScore(risk_score, dominant_mass, total)
        minority_score == MinorityScore(risk_score)
    IN  [ibm_quantum |-> TRUE,
         hardware |-> hardware,
         n_qubits |-> n,
         edges_analyzed |-> Len(edges),
         best_partition |-> [bitstring |-> best.bs, cut_value |-> best.cut,
                             max_possible_cut |-> max_possible_cut,
                             group_0 |-> group_0, group_1 |-> group_1],
         classical_baseline |-> [bitstring |-> cl[1], cut_value |-> cl[2]],
         quantum_advantage_pct |-> QuantumAdvantage(best.cut, cl[2], max_possible_cut),
         quantum_scores |->
             [acc \in SeqSet(members) |->
                 IF acc \in SeqSet(minority_group) THEN minority_score ELSE dominant_score],
         suspicious_set |-> dominant_group]

\* _fallback_result
_fallback_result(members, reason) ==
    [ibm_quantum |-> FALSE,
     hardware |-> "none",
     backend |-> "unavailable",
     reason |-> reason,
     quantum_scores |-> [acc \in SeqSet(members) |-> 5000],
     suspicious_set |-> members,
     quantum_advantage_pct |-> 0]

\* ---- IBMQuantumAgent.run

NoResult == [hardware |-> "not returned"]

Reverse(sq) == [k \in 1..Len(sq) |-> sq[Len(sq) + 1 - k]]

\* the transfers the graphs of this specification are made of
EdgePool == {<<1, 2>>, <<2, 1>>, <<3, 3>>, <<4, 6>>, <<7, 8>>, <<1, 9>>}

Zeros(n) == [j \in 1..n |-> 0]

Alternating(n) == [j \in 1..n |-> (j + 1) % 2]

\* what a backend job on n qubits may return: no sample at all, one sample, two
\* samples in either order of frequency or tied, keys shorter or longer than n
CountsFamily(n) ==
    { <<>>,
      <<[bs |-> Zeros(n), cnt |-> 2]>>,
      <<[bs |-> Zeros(n), cnt |-> 1], [bs |-> Alternating(n), cnt |-> 2]>>,
      <<[bs |-> Zeros(n), cnt |-> 1], [bs |-> Alternating(n), cnt |-> 1]>>,
      <<[bs |-> [j \in 1..(n - 1) |-> 1], cnt |-> 1],
        [bs |-> Alternating(n + 1), cnt |-> 2]>> }

\* a job raises, or returns counts
JobOutcomes(n) ==
    {[raised |-> TRUE, counts |-> <<>>]}
        \cup {[raised |-> FALSE, counts |-> c] : c \in CountsFamily(n)}

InitAgent ==
    /\ top_ring \in [member_accounts :
                        {NodeSeq(k) : k \in 0..MaxMembers}
                            \cup {Reverse(NodeSeq(k)) : k \in 0..MaxMembers},
                     risk_score : {80}]
    /\ self_G \in {EdgeSeq(S) : S \in SUBSET EdgePool}
    /\ env \in [token : BOOLEAN, runtime : BOOLEAN, qiskit : BOOLEAN]
    /\ apc = "run"
    /\ ibm_connected = FALSE
    /\ tried = <<>>
    /\ succeeded = {}
    /\ counts = <<>>
    /\ result = NoResult

members == top_ring.member_accounts

\* return of run()
Return(r, backend) ==
    /\ result' = r
    /\ succeeded' = succeeded \cup {backend}
    /\ apc' = "done"

\* lines 187-192
RunStart ==
    /\ apc = "run"
    /\ IF Len(members) < 2
       THEN /\ Return(_fallback_result(members, "insufficient_members"), "fallback")
            /\ tried' = Append(tried, "fallback")
       ELSE /\ apc' = "connect"
            /\ UNCHANGED <<result, succeeded, tried>>
    /\ UNCHANGED <<top_ring, self_G, env, ibm_connected, counts>>
    /\ UNCHANGED notAgent

\* _connect, and the branch of line 197
Connect ==
    /\ apc = "connect"
    /\ \E service_ok \in BOOLEAN :
          ibm_connected' = (env.runtime /\ env.token /\ service_ok)
    /\ apc' = IF ibm_connected' THEN "ibm" ELSE "aer"
    /\ UNCHANGED <<top_ring, self_G, env, tried, succeeded, counts, result>>
    /\ UNCHANGED notAgent

\* _run_on_ibm up to the backend selection (lines 213-222)
RunOnIbmSelect ==
    /\ apc = "ibm"
    /\ tried' = Append(tried, "ibm")
    /\ LET members_sub == Prefix(members, MAX_QUBITS_REAL)
           edges == _get_graph_edges(members_sub, self_G)
       IN  IF edges = <<>>
           THEN apc' = "aer"
           ELSE \E backend_found \in BOOLEAN :
                   apc' = IF backend_found THEN "ibm_job" ELSE "aer"
    /\ UNCHANGED <<top_ring, self_G, env, ibm_connected, succeeded, counts, result>>
    /\ UNCHANGED notAgent

\* mutant: the job of _run_on_ibm without its try/except
RunOnIbmJobNoCatch ==
    /\ apc = "ibm_job"
    /\ LET members_sub == Prefix(members, MAX_QUBITS_REAL)
           edges == _get_graph_edges(members_sub, self_G)
       IN  \E job \in JobOutcomes(Len(members_sub)) :
              LET r == IF job.raised THEN TypeError
                       ELSE _process_counts(job.counts, members_sub, top_ring.risk_score,
                                            edges, "real")
              IN  /\ counts' = job.counts
                  /\ IF r = TypeError
                     THEN /\ apc' = "raised"
                          /\ UNCHANGED <<result, succeeded>>
                     ELSE Return(r, "ibm")
    /\ UNCHANGED <<top_ring, self_G, env, ibm_connected, tried>>
    /\ UNCHANGED notAgent

\* the job of _run_on_ibm (lines 224-260) and line 200
RunOnIbmJob ==
    /\ apc = "ibm_job"
    /\ LET members_sub == Prefix(members, MAX_QUBITS_REAL)
           edges == _get_graph_edges(members_sub, self_G)
       IN  \E job \in JobOutcomes(Len(members_sub)) :
              LET r == IF job.raised THEN TypeError
                       ELSE _process_counts(job.counts, members_sub, top_ring.risk_score,
                                            edges, "real")
              IN  /\ counts' = job.counts
                  /\ IF r = TypeError
                     THEN /\ apc' = "aer"
                          /\ UNCHANGED <<result, succeeded>>
                     ELSE Return(r, "ibm")
    /\ UNCHANGED <<top_ring, self_G, env, ibm_connected, tried>>
    /\ UNCHANGED notAgent

\* lines 203-207 and _run_on_aer
RunOnAer ==
    /\ apc = "aer"
    /\ env.qiskit
    /\ LET members_sub == Prefix(members, MAX_QUBITS_SIM)
           edges == _get_graph_edges(members_sub, self_G)
       IN  IF edges = <<>>
           THEN /\ Return(_fallback_result(members_sub, "no_edges"), "fallback")
                /\ tried' = tried \o <<"aer", "fallback">>
                /\ UNCHANGED counts
           ELSE \E job \in JobOutcomes(Len(members_sub)) :
                   LET r == IF job.raised THEN TypeError
                            ELSE _process_counts(job.counts, members_sub, top_ring.risk_score,
                                                 edges, "simulator")
                   IN  /\ counts' = job.counts
                       /\ IF r = TypeError
                          THEN /\ Return(_fallback_result(members_sub, "aer_error"),
                                         "fallback")
                               /\ tried' = tried \o <<"aer", "fallback">>
                          ELSE /\ Return(r, "aer")
                               /\ tried' = Append(tried, "aer")
    /\ UNCHANGED <<top_ring, self_G, env, ibm_connected>>
    /\ UNCHANGED notAgent

\* line 209
RunFallback ==
    /\ apc = "aer"
    /\ ~env.qiskit
    /\ Return(_fallback_result(members, "qiskit_unavailable"), "fallback")
    /\ tried' = Append(tried, "fallback")
    /\ UNCHANGED <<top_ring, self_G, env, ibm_connected, counts>>
    /\ UNCHANGED notAgent

AgentIdle ==
    /\ top_ring = [member_accounts |-> <<>>, risk_score |-> 0]
    /\ self_G = <<>>
    /\ env = [token |-> FALSE, runtime |-> FALSE, qiskit |-> FALSE]
    /\ apc = "off"
    /\ ibm_connected = FALSE
    /\ tried = <<>>
    /\ succeeded = {}
    /\ counts = <<>>
    /\ result = NoResult

\* ---- one backend job: the cost graph, the counts, _process_counts

\* the n-bit string of the number v, qubit 0 first
Bits(v, n) == [j \in 1..n |-> (v \div 2^(n - j)) % 2]

\* counts with as many distinct n-bit keys as there are, MaxSamples at most, in
\* dict order from the key `start` on; the frequencies fall, rise or are all equal
LongCounts(n, start, profile) ==
    LET K == Min(2^n, MaxSamples)
    IN  [k \in 1..K |->
            [bs |-> Bits((start + k - 1) % 2^n, n),
             cnt |-> CASE profile = "falling" -> K + 1 - k
                       [] profile = "rising" -> k
                       [] profile = "equal" -> 1]]

\* what a job on n qubits may return
JobCounts(n) ==
    CountsFamily(n)
        \cup {LongCounts(n, start, profile) :
                 start \in {0, 22}, profile \in {"falling", "rising", "equal"}}

\* ring risk scores: below 0, 0, in range, and high enough for the cap of 100
RiskScores == {-10, 0, 80, 120}

\* the transfers the graphs of a job are made of: a directed 4-cycle, a pair in
\* both directions, a transfer of an account to itself
JobEdgePool == {<<1, 2>>, <<2, 3>>, <<3, 4>>, <<4, 1>>, <<2, 1>>, <<3, 3>>}

NoJobResult == [hardware |-> "not returned"]

InitJob ==
    /\ job_members \in {NodeSeq(n) : n \in 2..MaxQubits}
    /\ job_risk_score \in RiskScores
    /\ job_G \in {EdgeSeq(S) : S \in SUBSET JobEdgePool}
    /\ job_hardware \in {"real", "simulator"}
    /\ job_edges = <<>>
    /\ job_counts = <<>>
    /\ job_result = NoJobResult
    /\ job_pc = "edges"

\* lines 213-218 and 264-268: the cost graph; without edges there is no job
GetGraphEdges ==
    /\ job_pc = "edges"
    /\ job_edges' = _get_graph_edges(job_members, job_G)
    /\ job_pc' = IF job_edges' = <<>> THEN "no_edges" ELSE "job"
    /\ UNCHANGED <<job_members, job_risk_score, job_G, job_hardware, job_counts, job_result>>
    /\ UNCHANGED notJob

\* lines 236-256 and 278-292: the backend's counts go to _process_counts
ProcessCounts ==
    /\ job_pc = "job"
    /\ \E c \in JobCounts(Len(job_members)) :
          /\ job_counts' = c
          /\ job_result' = _process_counts(c, job_members, job_risk_score, job_edges,
                                           job_hardware)
    /\ job_pc' = "done"
    /\ UNCHANGED <<job_members, job_risk_score, job_G, job_hardware, job_edges>>
    /\ UNCHANGED notJob

JobIdle ==
    /\ job_members = <<>>
    /\ job_risk_score = 0
    /\ job_G = <<>>
    /\ job_hardware = "none"
    /\ job_edges = <<>>
    /\ job_counts = <<>>
    /\ job_result = NoJobResult
    /\ job_pc = "off"

\* ---- csv_parser.py

\* float64 keeps 53 significant bits; the model keeps MantissaBits of them, so
\* that sums of a few small amounts already round as sums of currency amounts do
MantissaBits == 3

\* the spacing of the floats around x >= 0, from u upwards
RECURSIVE UlpFrom(_, _)
UlpFrom(x, u) == IF x < u * 2^MantissaBits THEN u ELSE UlpFrom(x, 2 * u)

\* the float nearest to x >= 0, ties to the even mantissa
FlAbs(x) ==
    LET u == UlpFrom(x, 1)
        q == x \div u
        r == x % u
    IN  IF 2 * r < u \/ (2 * r = u /\ q % 2 = 0) THEN q * u ELSE (q + 1) * u

\* the result of a float operation whose exact result is x
Fl(x) == IF x < 0 THEN 0 - FlAbs(0 - x) ELSE FlAbs(x)

\* Series.sum() of line 50: the values are added one after the other
RECURSIVE SeriesSumFrom(_, _, _)
SeriesSumFrom(a, k, acc) ==
    IF k > Len(a) THEN acc ELSE SeriesSumFrom(a, k + 1, Fl(acc + a[k]))

SeriesSum(a) == SeriesSumFrom(a, 1, 0)

\* the "sum" of a groupby aggregation, lines 55-58: pandas adds the values of a
\* group one after the other with Kahan compensation
RECURSIVE GroupSumFrom(_, _, _, _)
GroupSumFrom(a, k, sumx, compensation) ==
    IF k > Len(a) THEN sumx
    ELSE LET y == Fl(a[k] - compensation)
             t == Fl(sumx + y)
         IN  GroupSumFrom(a, k + 1, t, Fl(Fl(t - sumx) - y))

GroupSum(a) == GroupSumFrom(a, 1, 0, 0)

\* An uploaded file: whether pandas can read it as CSV at all, whether the five
\* required columns are there, and its data rows.  A row is its sender_id, its
\* receiver_id, its amount and whether all of sender_id, receiver_id, amount and
\* timestamp survive the coercions of lines 31-32 (a row that does not is
\* dropped, line 33).
FileAccounts == {1, 2}

FileAmounts == {1, 8}

Rows == [sender_id : FileAccounts, receiver_id : FileAccounts, amount : FileAmounts,
         valid : BOOLEAN]

Files ==
    {[readable |-> FALSE, columns |-> FALSE, rows |-> <<>>],
     [readable |-> TRUE, columns |-> FALSE, rows |-> <<>>]}
        \cup {[readable |-> TRUE, columns |-> TRUE, rows |-> rs] : rs \in SeqsUpTo(Rows, MaxRows)}

NotParsed == [error |-> "not parsed"]

\* the data rows as read_csv delivers them; the position of a row in the file
\* stands for its transaction_id
read_csv(file) ==
    [k \in 1..Len(file.rows) |->
        [transaction_id |-> k,
         sender_id |-> file.rows[k].sender_id,
         receiver_id |-> file.rows[k].receiver_id,
         amount |-> file.rows[k].amount,
         valid |-> file.rows[k].valid]]

\* grp["amount"]
AmountsOf(grp) == [k \in 1..Len(grp) |-> grp[k].amount]

\* mutant: transfers grouped by the pair of accounts, whatever the direction
EdgeGroupUndirected(df, sender, receiver) ==
    LET InPair(r) == {r.sender_id, r.receiver_id} = {sender, receiver}
    IN  SelectSeq(df, InPair)

\* df.groupby(["sender_id", "receiver_id"]): the rows of one ordered pair, in the
\* order of the file
EdgeGroup(df, sender, receiver) ==
    LET InGroup(r) == r.sender_id = sender /\ r.receiver_id = receiver
    IN  SelectSeq(df, InGroup)

\* lines 43-52: the attributes of the edge sender -> receiver
EdgeData(df, sender, receiver) ==
    LET grp == EdgeGroup(df, sender, receiver)
    IN  [total_amount |-> SeriesSum(AmountsOf(grp)),
         tx_count |-> Len(grp),
         transactions |-> [k \in 1..Len(grp) |->
                              [transaction_id |-> grp[k].transaction_id,
                               amount |-> grp[k].amount]]]

\* mutant: a transfer to oneself is not counted as received
RecvGroupNoSelf(df, node) ==
    LET Received(r) == r.receiver_id = node /\ r.sender_id # node
    IN  SelectSeq(df, Received)

\* df.groupby("sender_id"), df.groupby("receiver_id")
SentGroup(df, node) ==
    LET Sent(r) == r.sender_id = node
    IN  SelectSeq(df, Sent)

RecvGroup(df, node) ==
    LET Received(r) == r.receiver_id = node
    IN  SelectSeq(df, Received)

\* lines 72-78: the statistics of a node; an account with no row on one side is
\* not in that aggregation's index
NodeData(df, node) ==
    LET sent == SentGroup(df, node)
        recv == RecvGroup(df, node)
    IN  [total_sent |-> IF sent # <<>> THEN GroupSum(AmountsOf(sent)) ELSE 0,
         total_received |-> IF recv # <<>> THEN GroupSum(AmountsOf(recv)) ELSE 0,
         tx_count_sent |-> Len(sent),
         tx_count_recv |-> Len(recv),
         tx_count_total |-> Len(sent) + Len(recv)]

\* parse_csv: read_csv raises a ValueError (EmptyDataError, ParserError) on a file
\* it cannot read, line 29 raises ValueError on a missing column; otherwise the
\* rows are filtered and the graph is built from what is left, however little
parse_csv(file) ==
    IF ~file.readable \/ ~file.columns THEN [error |-> "ValueError"]
    ELSE LET Valid(r) == r.valid
             df == SelectSeq(read_csv(file), Valid)
             all_accounts == {df[k].sender_id : k \in 1..Len(df)}
                                \cup {df[k].receiver_id : k \in 1..Len(df)}
             edges == {<<df[k].sender_id, df[k].receiver_id>> : k \in 1..Len(df)}
             \* add_nodes_from(all_accounts), and add_edge adds its two ends
             nodes == all_accounts \cup {e[1] : e \in edges} \cup {e[2] : e \in edges}
         IN  [error |-> "none",
              df |-> df,
              G |-> [nodes |-> nodes,
                     edges |-> edges,
                     edge |-> [e \in edges |-> EdgeData(df, e[1], e[2])],
                     node |-> [n \in nodes |-> NodeData(df, n)]],
              metadata |-> [total_transactions |-> Len(df),
                            total_accounts |-> Cardinality(all_accounts),
                            total_edges |-> Cardinality(edges)]]

InitParse ==
    /\ file_content \in Files
    /\ parsed = NotParsed

\* lines 115-121 and 245-249 of app/main.py on the uploaded file
ParseUpload ==
    /\ pc = "reading"
    /\ parsed' = parse_csv(file_content)
    /\ ParseOutcome(IF parsed'.error = "none" THEN "ok" ELSE parsed'.error)
    /\ UNCHANGED file_content
    /\ UNCHANGED <<mergeVars, greedyVars, agentVars, jobVars, vizVars>>

ParseIdle ==
    /\ file_content = <<>>
    /\ parsed = NotParsed

\* ---- app/main.py: _build_graph_viz_data

VizNodes == 1..MaxVizNodes

VizEdgePool == {<<1, 2>>, <<2, 3>>, <<3, 1>>, <<1, 3>>}

\* MAX_GRAPH_VIZ_NODES and MAX_GRAPH_VIZ_EDGES are int(os.getenv(...)): whatever
\* the deployment sets
InitViz ==
    /\ viz_G \in {[nodes |-> VizNodes, edges |-> E] : E \in SUBSET VizEdgePool}
    /\ suspicious_ids \in SUBSET VizNodes
    /\ MAX_GRAPH_VIZ_NODES \in 1..MaxVizCap
    /\ MAX_GRAPH_VIZ_EDGES \in 1..MaxVizCap
    /\ include_nodes = {}
    /\ viz_todo = {}
    /\ viz_nbs = <<{}, {}>>
    /\ edge_todo = viz_G.edges
    /\ viz_edges = <<>>
    /\ vpc = "start"

VizIdle ==
    /\ viz_G = [nodes |-> {}, edges |-> {}]
    /\ suspicious_ids = {}
    /\ MAX_GRAPH_VIZ_NODES = 0
    /\ MAX_GRAPH_VIZ_EDGES = 0
    /\ include_nodes = {}
    /\ viz_todo = {}
    /\ viz_nbs = <<{}, {}>>
    /\ edge_todo = {}
    /\ viz_edges = <<>>
    /\ vpc = "off"

predecessors(G, node) == {u \in G.nodes : <<u, node>> \in G.edges}

successors(G, node) == {v \in G.nodes : <<node, v>> \in G.edges}

\* line 433: the fill loop runs only while include_nodes is under the cap
AfterNeighbours ==
    IF Cardinality(include_nodes) < MAX_GRAPH_VIZ_NODES
    THEN vpc' = "fill" /\ viz_todo' = viz_G.nodes
    ELSE vpc' = "edges" /\ viz_todo' = {}

\* lines 419-421: every suspicious account is included, whatever the cap
VizBegin ==
    /\ UNCHANGED notViz
    /\ vpc = "start"
    /\ include_nodes' = suspicious_ids
    /\ IF Cardinality(suspicious_ids) < MAX_GRAPH_VIZ_NODES
       THEN vpc' = "outer" /\ viz_todo' = suspicious_ids
       ELSE vpc' = "edges" /\ viz_todo' = {}
    /\ UNCHANGED <<viz_G, suspicious_ids, MAX_GRAPH_VIZ_NODES, MAX_GRAPH_VIZ_EDGES,
                   viz_nbs, edge_todo, viz_edges>>

\* lines 422-425: the next suspicious node, unless the cap is reached
VizNextNode ==
    /\ UNCHANGED notViz
    /\ vpc = "outer"
    /\ IF viz_todo = {} \/ Cardinality(include_nodes) >= MAX_GRAPH_VIZ_NODES
       THEN AfterNeighbours /\ UNCHANGED viz_nbs
       ELSE \E node \in viz_todo :
               /\ viz_todo' = viz_todo \ {node}
               /\ viz_nbs' = <<predecessors(viz_G, node), successors(viz_G, node)>>
               /\ vpc' = "inner"
    /\ UNCHANGED <<viz_G, suspicious_ids, MAX_GRAPH_VIZ_NODES, MAX_GRAPH_VIZ_EDGES,
                   include_nodes, edge_todo, viz_edges>>

\* lines 426-429: a neighbour is added, then the cap is looked at
VizAddNeighbour ==
    /\ UNCHANGED notViz
    /\ vpc = "inner"
    /\ IF viz_nbs = <<{}, {}>>
       THEN vpc' = "outer" /\ UNCHANGED <<include_nodes, viz_nbs>>
       ELSE LET part == IF viz_nbs[1] # {} THEN 1 ELSE 2
            IN  \E nb \in viz_nbs[part] :
                   /\ include_nodes' = include_nodes \cup {nb}
                   /\ viz_nbs' = [viz_nbs EXCEPT ![part] = @ \ {nb}]
                   /\ vpc' = IF Cardinality(include_nodes') >= MAX_GRAPH_VIZ_NODES
                             THEN "outer" ELSE "inner"
    /\ UNCHANGED <<viz_G, suspicious_ids, MAX_GRAPH_VIZ_NODES, MAX_GRAPH_VIZ_EDGES,
                   viz_todo, edge_todo, viz_edges>>

\* lines 434-437: the remaining nodes, until the cap is reached
VizFill ==
    /\ UNCHANGED notViz
    /\ vpc = "fill"
    /\ IF viz_todo = {}
       THEN vpc' = "edges" /\ UNCHANGED <<include_nodes, viz_todo>>
       ELSE \E node \in viz_todo :
               /\ include_nodes' = include_nodes \cup {node}
               /\ viz_todo' = viz_todo \ {node}
               /\ vpc' = IF Cardinality(include_nodes') >= MAX_GRAPH_VIZ_NODES
                         THEN "edges" ELSE "fill"
    /\ UNCHANGED <<viz_G, suspicious_ids, MAX_GRAPH_VIZ_NODES, MAX_GRAPH_VIZ_EDGES,
                   viz_nbs, edge_todo, viz_edges>>

\* lines 497-522: the edges between included nodes, until the cap is reached
VizEdge ==
    /\ UNCHANGED notViz
    /\ vpc = "edges"
    /\ IF edge_todo = {}
       THEN vpc' = "done" /\ UNCHANGED <<edge_todo, viz_edges>>
       ELSE \E e \in edge_todo :
               /\ edge_todo' = edge_todo \ {e}
               /\ IF e[1] \notin include_nodes \/ e[2] \notin include_nodes
                  THEN UNCHANGED <<viz_edges, vpc>>
                  ELSE IF Len(viz_edges) >= MAX_GRAPH_VIZ_EDGES
                       THEN vpc' = "done" /\ UNCHANGED viz_edges
                       ELSE viz_edges' = Append(viz_edges, e) /\ UNCHANGED vpc
    /\ UNCHANGED <<viz_G, suspicious_ids, MAX_GRAPH_VIZ_NODES, MAX_GRAPH_VIZ_EDGES,
                   include_nodes, viz_todo, viz_nbs>>

\* ------------------------------------------------------- specifications

Init == InitPipe /\ MergeIdle /\ GreedyIdle /\ AgentIdle /\ JobIdle /\ ParseIdle /\ VizIdle

Spec == Init /\ [][Next]_vars

InitM == InitMerge /\ PipeIdle /\ GreedyIdle /\ AgentIdle /\ JobIdle /\ ParseIdle /\ VizIdle

NextMerge == MergePasses

SpecMerge == InitM /\ [][NextMerge]_vars

InitG == InitGreedy /\ PipeIdle /\ MergeIdle /\ AgentIdle /\ JobIdle /\ ParseIdle /\ VizIdle

NextGreedy == GreedyStep \/ GreedyReturn

SpecGreedy == InitG /\ [][NextGreedy]_vars

InitA == InitAgent /\ PipeIdle /\ MergeIdle /\ GreedyIdle /\ JobIdle /\ ParseIdle /\ VizIdle

NextAgent ==
    \/ RunStart
    \/ Connect
    \/ RunOnIbmSelect
    \/ RunOnIbmJob
    \/ RunOnAer
    \/ RunFallback

SpecAgent == InitA /\ [][NextAgent]_vars

InitJ == InitJob /\ PipeIdle /\ MergeIdle /\ GreedyIdle /\ AgentIdle /\ ParseIdle /\ VizIdle

NextJob == GetGraphEdges \/ ProcessCounts

SpecJob == InitJ /\ [][NextJob]_vars

InitP == InitParse /\ PipeIdle /\ MergeIdle /\ GreedyIdle /\ AgentIdle /\ JobIdle /\ VizIdle

NextParse == Receive \/ ParseUpload

SpecParse == InitP /\ [][NextParse]_vars

InitV == InitViz /\ PipeIdle /\ MergeIdle /\ GreedyIdle /\ AgentIdle /\ JobIdle /\ ParseIdle

NextViz ==
    \/ VizBegin
    \/ VizNextNode
    \/ VizAddNeighbour
    \/ VizFill
    \/ VizEdge

SpecViz == InitV /\ [][NextViz]_vars

\* ------------------------------------------------- claims on app/main.py

\* position of event e in the log of the request in flight, 0 when it is not there
Pos(e) == IF \E i \in 1..Len(log) : log[i] = e
          THEN CHOOSE i \in 1..Len(log) : log[i] = e
          ELSE 0

\* b happened only after a
Before(a, b) == Pos(b) # 0 => (Pos(a) # 0 /\ Pos(a) < Pos(b))

\* C1: whatever a reader is handed comes from one completed analysis run: a
\* What-If simulation gets the graph, the dataframe and the results of the same run.
C1_ReaderSeesOneRun ==
    (rlast.ep = "whatif" /\ rlast.code = 200)
        => (rlast.g = rlast.r /\ rlast.d = rlast.r)

\* C2: an analyze request that answered with an error left latest_graph,
\* latest_df and latest_results as they were when it came in.
C2_FailedRunLeavesLatest ==
    (pc = "idle" /\ resp \in {400, 500}) => Latest = entry

\* a stage that is no optimizer-backend step failed in the request
OtherFailed ==
    \/ log = <<>>
    \/ task["graph"] = "raised"
    \/ task["ml"] = "raised"
    \/ \E s \in {"aggregate", "disrupt", "crime_team", "viz", "respond"} :
          Pos(s \o "_start") # 0 /\ Pos(s \o "_done") = 0

\* C4: a request in which only an optimizer-backend step failed (the partition
\* task of the parallel phase, or the IBM Quantum step) is answered 200 and its
\* result is stored.
C4_BackendFailureKeepsRequest ==
    (/\ pc = "idle"
     /\ resp # 0
     /\ (task["quantum"] = "raised" \/ ibm_result = "raised")
     /\ ~OtherFailed)
        => (resp = 200 /\ latest_results.run = run)

\* C7: within a request, aggregation starts after the three tasks completed, the
\* second pass after ring detection and before aggregation, the Disruption Engine
\* after aggregation, and the result is stored after all of them.
C7_StagesOrdered ==
    /\ \A t \in Tasks : Before(t \o "_ok", "aggregate_start")
    /\ Before("graph_ok", "second_pass_start")
    /\ (Pos("second_pass_start") # 0 /\ Pos("aggregate_start") # 0)
          => (Pos("second_pass_done") # 0
              /\ Pos("second_pass_done") < Pos("aggregate_start"))
    /\ Before("aggregate_done", "disrupt_start")
    /\ \A e \in {"graph_ok", "ml_ok", "quantum_ok", "aggregate_done", "disrupt_done"} :
          Before(e, "stored")
    /\ (rings /\ Pos("stored") # 0) => Before("second_pass_done", "stored")

C7_Witness ==
    /\ Pos("stored") # 0
    /\ Pos("second_pass_done") # 0
    /\ log[3] = "quantum_ok"

\* ------------------------------------------------ claims on the merge

Appended == SubSeq(quantum_results.qr, Len(first_pass.qr) + 1, Len(quantum_results.qr))

C6_ScoresAddedNeverOverwritten ==
    (mpc = "merged") =>
        /\ \A a \in DOMAIN first_pass.qs :
              a \in DOMAIN quantum_results.qs /\ quantum_results.qs[a] = first_pass.qs[a]
        /\ DOMAIN quantum_results.qs = DOMAIN first_pass.qs \cup DOMAIN q2.qs
        /\ \A a \in DOMAIN quantum_results.qs \ DOMAIN first_pass.qs :
              quantum_results.qs[a] = q2.qs[a]

C6_Witness ==
    /\ mpc = "merged" /\ rings_found
    /\ \E a \in DOMAIN first_pass.qs \cap DOMAIN q2.qs : first_pass.qs[a] # q2.qs[a]
    /\ DOMAIN q2.qs \ DOMAIN first_pass.qs # {}

\* --------------------------------------- claims on the classical baseline

\* edges cut at node i when it is put on side b, counting its edges to the nodes
\* of `others`, each on the side part gives it
LocalCut(part, i, b, edges, others) ==
    LET T(e) == (e[1] = i /\ e[2] \in others \ {i} /\ part[e[2]] # b)
                    \/ (e[2] = i /\ e[1] \in others \ {i} /\ part[e[1]] # b)
    IN  CountEdges([k \in 1..Len(edges) |-> T(edges[k])])

\* the side node i got cuts at least as many edges as the other side would
LocallyMaximal(part, i, side, edges, others) ==
    LocalCut(part, i, side, edges, others) >= LocalCut(part, i, 1 - side, edges, others)

\* C10: nodes are taken in index order and each is put on the side that cuts the
\* larger number of edges to the nodes as assigned at that moment (read either as
\* the nodes assigned before it, or as all nodes with the unassigned ones on side
\* 0); the value returned is the number of edges the final assignment separates.
C10_GreedyMaximisesLocalCut ==
    /\ gi > 0 =>
          \/ LocallyMaximal(before, gi, partition[gi], gedges, 1..(gi - 1))
          \/ LocallyMaximal(before, gi, partition[gi], gedges, 1..gn)
    /\ classical # <<>> =>
          classical[2] = Cardinality({k \in 1..Len(gedges) :
                              partition[gedges[k][1]] # partition[gedges[k][2]]})

\* ------------------------------------------- claims on IBMQuantumAgent.run

Priority(b) == CASE b = "ibm" -> 1 [] b = "aer" -> 2 [] b = "fallback" -> 3

HardwareOf(b) == CASE b = "ibm" -> "real" [] b = "aer" -> "simulator" [] b = "fallback" -> "none"

\* C3: run never lets a failure out: the backends are called in the order real
\* hardware (only after a successful connection), simulator, deterministic
\* fallback; nothing is called after a backend has delivered; and run returns the
\* result of the backend that delivered.
C3_FallbackChainNeverRaises ==
    /\ apc # "raised"
    /\ \A i, j \in 1..Len(tried) : i < j => Priority(tried[i]) < Priority(tried[j])
    /\ InSeq("ibm", tried) => (ibm_connected /\ Len(members) >= 2)
    /\ \A i \in 1..Len(tried) : tried[i] \in succeeded => i = Len(tried)
    /\ succeeded \subseteq SeqSet(tried)
    /\ apc = "done" =>
          /\ result # NoResult
          /\ succeeded = {tried[Len(tried)]}
          /\ result.hardware = HardwareOf(tried[Len(tried)])
    /\ apc # "done" => (result = NoResult /\ succeeded = {})

C3_Witness ==
    /\ apc = "done"
    /\ tried = <<"ibm", "aer">>
    /\ counts # <<>>
    /\ result.hardware = "simulator"

\* C8: in a result computed from a backend's counts, group_0 and group_1 are
\* disjoint and together are exactly the first n_qubits members of the ring.
C8_GroupsPartitionCappedSubset ==
    (apc = "done" /\ result.hardware # "none") =>
        LET g0 == result.best_partition.group_0
            g1 == result.best_partition.group_1
        IN  /\ SeqSet(g0) \cap SeqSet(g1) = {}
            /\ SeqSet(g0) \cup SeqSet(g1) = SeqSet(Prefix(members, result.n_qubits))
            /\ Len(g0) + Len(g1) = result.n_qubits
            /\ result.n_qubits <= Len(members)

C8_Witness ==
    /\ apc = "done"
    /\ result.hardware = "real"
    /\ Len(members) > result.n_qubits
    /\ members[1] > members[2]
    /\ result.best_partition.group_0 # <<>>
    /\ result.best_partition.group_1 # <<>>
    /\ \E k \in 1..Len(counts) : Len(counts[k].bs) > result.n_qubits

\* no edge of the graph joins two members of the ring
NoInducedEdges ==
    \A k \in 1..Len(self_G) :
        ~(self_G[k][1] \in SeqSet(members) /\ self_G[k][2] \in SeqSet(members))

\* C9: for a ring of fewer than 2 members, or with no induced edge, run returns
\* the deterministic fallback: score 50 for every member of the ring, advantage 0
\* and confidence "low".
C9_FallbackScoresEveryMember ==
    (apc = "done" /\ (Len(members) < 2 \/ NoInducedEdges)) =>
        /\ result.hardware = "none"
        /\ result.quantum_advantage_pct = 0
        /\ "confidence" \in DOMAIN result /\ result.confidence = "low"
        /\ \A acc \in SeqSet(members) :
              acc \in DOMAIN result.quantum_scores /\ result.quantum_scores[acc] = 5000

\* ---------------------------------------------- claims on one backend job

\* a job that returned a partition result
JobDone == job_pc = "done" /\ job_result # TypeError

\* the samples of the job, most frequent first, and the first k of them
JobTop(k) == Prefix(SortedCounts(job_counts), k)

JobCut(bs) == _compute_maxcut_value(Clean(bs, Len(job_members)), job_edges)

Cycle4 == {<<1, 2>>, <<2, 3>>, <<3, 4>>, <<4, 1>>}

AlternatingInTop ==
    \E k \in 1..Len(JobTop(20)) :
        Clean(JobTop(20)[k].bs, 4) \in {<<0, 1, 0, 1>>, <<1, 0, 1, 0>>}

\* C11: for the ring A, B, C, D on the directed cycle A->B->C->D->A the cost
\* graph has 4 edges and, an alternating coloring being among the 20 most
\* frequent samples, the best cut is 4, the classical baseline cut is 4, the
\* advantage is 0, the partition is {A,C} / {B,D}, and group_1 is dominant.
C11_FourCycleExample ==
    (JobDone /\ job_members = <<1, 2, 3, 4>> /\ SeqSet(job_G) = Cycle4 /\ AlternatingInTop) =>
        /\ Len(job_edges) = 4
        /\ job_result.best_partition.max_possible_cut = 4
        /\ job_result.best_partition.cut_value = 4
        /\ job_result.classical_baseline.cut_value = 4
        /\ job_result.quantum_advantage_pct = 0
        /\ {SeqSet(job_result.best_partition.group_0),
            SeqSet(job_result.best_partition.group_1)} = {{1, 3}, {2, 4}}
        /\ job_result.suspicious_set = job_result.best_partition.group_1

\* C12: the best partition is the coloring of one of the 20 most frequent
\* samples; no sample of those 20 cuts more edges; and of the samples of those
\* 20 that cut as many, none is more frequent than the one chosen.
C12_BestIsTopCutOfTop20 ==
    JobDone =>
        LET top == JobTop(20)
            best == job_result.best_partition
        IN  \E k \in 1..Len(top) :
                /\ Clean(top[k].bs, Len(job_members)) = best.bitstring
                /\ JobCut(top[k].bs) = best.cut_value
                /\ \A j \in 1..Len(top) :
                      /\ JobCut(top[j].bs) <= best.cut_value
                      /\ JobCut(top[j].bs) = best.cut_value => top[j].cnt <= top[k].cnt

\* a sample ranked below the 20th cuts more edges than the best partition
C12_Witness ==
    /\ JobDone
    /\ Len(job_counts) > 20
    /\ \E j \in 21..Len(job_counts) :
          JobCut(SortedCounts(job_counts)[j].bs) > job_result.best_partition.cut_value

\* C13: the dominant group, reported as suspicious_set, is the larger group, and
\* group_1 when the two are equally large; every account outside it is in the
\* other group and is scored as a minority account.
C13_DominantIsLargerOrSecond ==
    JobDone =>
        LET g0 == job_result.best_partition.group_0
            g1 == job_result.best_partition.group_1
            dom == job_result.suspicious_set
            other == IF dom = g1 THEN g0 ELSE g1
        IN  /\ dom \in {g0, g1}
            /\ Len(dom) >= Len(other)
            /\ Len(g0) = Len(g1) => dom = g1
            /\ \A acc \in SeqSet(job_members) \ SeqSet(dom) :
                  /\ acc \in SeqSet(other)
                  /\ job_result.quantum_scores[acc] = Min(60 * job_risk_score, 10000)

\* a 2/2 tie with different scores for the two groups
C13_Witness ==
    /\ JobDone
    /\ Len(job_result.best_partition.group_0) = 2
    /\ Len(job_result.best_partition.group_1) = 2
    /\ job_result.suspicious_set = job_result.best_partition.group_1
    /\ \E a, b \in SeqSet(job_members) :
          job_result.quantum_scores[a] > job_result.quantum_scores[b]

\* the accounts of the dominant group and those of the other group
JobDominant == SeqSet(job_result.suspicious_set)

JobMinority == SeqSet(job_members) \ JobDominant

\* C14: with a ring risk score of 0 or more, every account of the dominant group
\* scores at least as much as every account of the minority group.
C14_DominantScoresAtLeastMinority ==
    (JobDone /\ job_risk_score >= 0) =>
        \A a \in JobDominant, b \in JobMinority :
            job_result.quantum_scores[a] >= job_result.quantum_scores[b]

\* the cap of 100 applies to the dominant score and there is a minority account
C14_Witness ==
    /\ JobDone
    /\ job_risk_score = 120
    /\ JobMinority # {}
    /\ \E a \in JobDominant : job_result.quantum_scores[a] = 10000
    /\ \E b \in JobMinority : job_result.quantum_scores[b] < 10000

\* C15: every per-account score of a returned result is within [0, 100],
\* whatever the risk score of the ring.
C15_ScoresClamped ==
    JobDone =>
        \A acc \in DOMAIN job_result.quantum_scores :
            /\ job_result.quantum_scores[acc] >= 0
            /\ job_result.quantum_scores[acc] <= 10000

\* the counts of all samples of the job
JobTotal == SumCnt(job_counts, [k \in 1..Len(job_counts) |-> TRUE], Len(job_counts))

\* the counts, among the 10 most frequent samples, of those equal to the best partition
JobDominantMass ==
    LET top == JobTop(10)
    IN  SumCnt(top, [k \in 1..Len(top) |->
                        Clean(top[k].bs, Len(job_members)) = job_result.best_partition.bitstring],
               Len(top))

\* 100 * JobTotal times min(risk_score * 0.9 + dominant_probability_mass * 10, 100)
JobDominantExact ==
    Min(90 * job_risk_score * JobTotal + 1000 * JobDominantMass, 10000 * JobTotal)

\* C16 as stated: dominant accounts score exactly
\* min(risk_score * 0.9 + dominant_probability_mass * 10, 100) and minority
\* accounts exactly min(risk_score * 0.6, 100).
C16_ScoresExact ==
    JobDone =>
        /\ \A a \in JobDominant : job_result.quantum_scores[a] * JobTotal = JobDominantExact
        /\ \A b \in JobMinority :
              job_result.quantum_scores[b] = Min(60 * job_risk_score, 10000)

\* C16 amended: the scores are these values rounded to 2 decimals; and when the
\* samples are distinct colorings and the best one ranks in the top 10, the
\* probability mass is that sample's own frequency.
C16_ScoresRounded ==
    JobDone =>
        LET top == JobTop(10)
            n == Len(job_members)
            mass == JobDominantMass
            dominant == RoundDiv(JobDominantExact, JobTotal)
            colorings == {Clean(job_counts[i].bs, n) : i \in 1..Len(job_counts)}
        IN  /\ \A a \in JobDominant : job_result.quantum_scores[a] = dominant
            /\ \A b \in JobMinority :
                  job_result.quantum_scores[b] = Min(60 * job_risk_score, 10000)
            /\ Cardinality(colorings) = Len(job_counts) =>
                  \A k \in 1..Len(top) :
                      Clean(top[k].bs, n) = job_result.best_partition.bitstring
                          => mass = top[k].cnt

\* the rounding changes the dominant score, and there is a minority account
C16_Witness ==
    /\ JobDone
    /\ JobMinority # {}
    /\ JobDominantMass > 0
    /\ \E a \in JobDominant :
          /\ job_result.quantum_scores[a] * JobTotal # JobDominantExact
          /\ job_result.quantum_scores[a] < 10000

\* the accounts at the two ends of a cost-graph edge
EdgeAccounts(e) == <<job_members[e[1]], job_members[e[2]]>>

\* C17: the cost graph has no edge from a member to itself, has every unordered
\* pair of members at most once, and has only pairs of ring members that an
\* edge of the graph joins in one direction or the other.
C17_CostGraphSimple ==
    job_pc # "edges" =>
        /\ \A k \in 1..Len(job_edges) : job_edges[k][1] # job_edges[k][2]
        /\ \A i, j \in 1..Len(job_edges) :
              i # j => {job_edges[i][1], job_edges[i][2]} # {job_edges[j][1], job_edges[j][2]}
        /\ \A k \in 1..Len(job_edges) :
              /\ job_edges[k][1] \in 1..Len(job_members)
              /\ job_edges[k][2] \in 1..Len(job_members)
              /\ \/ EdgeAccounts(job_edges[k]) \in SeqSet(job_G)
                 \/ <<EdgeAccounts(job_edges[k])[2], EdgeAccounts(job_edges[k])[1]>> \in SeqSet(job_G)

\* C19: the advantage is (best_cut - classical_cut) / max(total_edges, 1) * 100
\* rounded to 2 decimals, total_edges being the number of cost-graph edges; it is
\* 0 exactly when the two cuts are equal, positive exactly when the best cut is
\* the larger, negative exactly when it is the smaller, and within [-100, 100].
C19_AdvantageFormula ==
    JobDone =>
        LET best_cut == job_result.best_partition.cut_value
            classical_cut == job_result.classical_baseline.cut_value
            total_edges == Len(job_edges)
            adv == job_result.quantum_advantage_pct
        IN  /\ job_result.edges_analyzed = total_edges
            /\ job_result.best_partition.max_possible_cut = total_edges
            /\ adv = RoundDiv((best_cut - classical_cut) * 10000,
                              IF total_edges > 1 THEN total_edges ELSE 1)
            /\ adv = 0 <=> best_cut = classical_cut
            /\ adv > 0 <=> best_cut > classical_cut
            /\ adv < 0 <=> best_cut < classical_cut
            /\ adv >= -10000 /\ adv <= 10000

\* an advantage that is not a whole percentage: the rounding shows
C19_Witness ==
    /\ JobDone
    /\ job_result.quantum_advantage_pct > 0
    /\ job_result.quantum_advantage_pct % 100 # 0
    /\ job_result.best_partition.cut_value < Len(job_edges)

\* ------------------------------- further claims on IBMQuantumAgent.run

\* C18: a result from real hardware covers exactly the first min(5, |ring|)
\* members of the ring, a result from the simulator the first min(8, |ring|),
\* and n_qubits is that number.
C18_CappedPrefixOfRing ==
    (apc = "done" /\ result.hardware \in {"real", "simulator"}) =>
        LET cap == IF result.hardware = "real" THEN 5 ELSE 8
            n == IF Len(members) < cap THEN Len(members) ELSE cap
            first == {members[k] : k \in 1..n}
        IN  /\ result.n_qubits = n
            /\ Len(result.best_partition.bitstring) = n
            /\ DOMAIN result.quantum_scores = first
            /\ SeqSet(result.best_partition.group_0)
                  \cup SeqSet(result.best_partition.group_1) = first

\* a ring of 9 in descending order on the simulator: accounts 9 down to 2
C18_Witness ==
    /\ apc = "done"
    /\ result.hardware = "simulator"
    /\ Len(members) = 9
    /\ members[1] = 9
    /\ result.n_qubits = 8
    /\ DOMAIN result.quantum_scores = 2..9

\* ------------------------------------------------------ claims on parse_csv

\* the file is a CSV with the required columns and none of its rows is valid
NothingValid ==
    /\ file_content.readable
    /\ file_content.columns
    /\ \A k \in 1..Len(file_content.rows) : ~file_content.rows[k].valid

\* C20: when no account and no valid transfer is left after the invalid rows are
\* dropped, the request fails and no graph is handed to the agents.
C20_EmptyGraphFails ==
    (parsed # NotParsed /\ pc # "reading" /\ NothingValid) =>
        /\ parsed.error # "none"
        /\ resp \in {400, 500}
        /\ latest_graph = 0
        /\ \A t \in Tasks : task[t] = "none"

\* ------------------------------------ claims on the reader endpoints

\* a What-If request is answered in this step
WhatIfAnswered == rlast' # rlast /\ rlast'.ep = "whatif"

\* C21: a What-If request with an empty or absent "nodes", and a What-If request
\* made while no analysis result is stored, is answered 400 and no simulation
\* is given anything.
C21_EmptyRemovalRejected ==
    [][(WhatIfAnswered /\ (rlast'.nodes = "empty" \/ latest_results = NoResults))
          => (rlast'.code = 400 /\ rlast'.g = 0 /\ rlast'.d = 0 /\ rlast'.r = 0)]_vars

\* an empty removal set was rejected although a graph and results are stored
C21_Witness ==
    /\ rlast.ep = "whatif"
    /\ rlast.nodes = "empty"
    /\ rlast.code = 400
    /\ latest_graph # 0
    /\ latest_results # NoResults

\* a step of a reader endpoint: download, what-if, on-demand IBM, webhook
ReaderStep == rlast' # rlast \/ rpc' # rpc

\* C22: no step of a reader endpoint changes the stored graph, dataframe or
\* results, and a What-If simulation is given exactly what is stored when it
\* runs: two What-If calls with no analysis step between them are given the same.
C22_ReadersAreStateless ==
    [][ReaderStep =>
          /\ Latest' = Latest
          /\ (WhatIfAnswered /\ rlast'.code = 200) =>
                (/\ rlast'.g = latest_graph
                 /\ rlast'.d = latest_df
                 /\ rlast'.r = latest_results.run)
          /\ (rlast' # rlast /\ rlast'.ep = "ibm" /\ rlast'.code = 200) =>
                (rlast'.g = latest_graph /\ rlast'.r = latest_results.run)
          /\ (rlast' # rlast /\ rlast'.ep \in {"download", "webhook"}) =>
                rlast'.r = latest_results.run]_vars

\* a What-If simulation ran on the stored state, which is still there
C22_Witness ==
    /\ rlast.ep = "whatif"
    /\ rlast.code = 200
    /\ rlast.nodes = "some"
    /\ rlast.g = latest_graph
    /\ rlast.d = latest_df
    /\ rlast.r = latest_results.run
    /\ run = 2

\* an analyze request ends in this step with an error
AnalysisFails == pc # "idle" /\ pc' = "idle" /\ resp' \in {400, 500}

\* C26: only an analysis that succeeds changes what is stored: download answers
\* 404, and what-if and on-demand IBM answer 400, exactly as long as nothing is
\* stored; a stored result is never cleared; and an analysis that fails leaves
\* the stored result, and so what download returns, as it was when the request
\* came in (nothing, before the first success).
C26_ResultAvailabilityMonotonic ==
    [][/\ latest_results # NoResults => latest_results' # NoResults
       /\ (rlast' # rlast /\ rlast'.ep = "download") =>
             (rlast'.code = 404 <=> latest_results = NoResults)
       /\ (rlast' # rlast /\ rlast'.ep \in {"whatif", "ibm"} /\ latest_results = NoResults) =>
             rlast'.code = 400
       /\ AnalysisFails => latest_results' = entry[3]]_vars

\* what holds of it: the stored result is never cleared, the readers refuse
\* exactly while nothing is stored, and an analysis that fails before it has
\* stored its result leaves the stored result as it was
C26_NeverCleared ==
    [][/\ latest_results # NoResults => latest_results' # NoResults
       /\ (rlast' # rlast /\ rlast'.ep = "download") =>
             (rlast'.code = 404 <=> latest_results = NoResults)
       /\ (rlast' # rlast /\ rlast'.ep \in {"whatif", "ibm"} /\ latest_results = NoResults) =>
             rlast'.code = 400
       /\ (AnalysisFails /\ "stored" \notin {log[k] : k \in 1..Len(log)}) =>
             latest_results' = entry[3]]_vars

\* ------------------------------------------------- claims on csv_parser.py

\* the valid rows of the uploaded file, by their position
ValidRows == {k \in 1..Len(file_content.rows) : file_content.rows[k].valid}

\* the valid rows of one ordered (sender, receiver) pair
TransfersOf(e) ==
    {k \in ValidRows : <<file_content.rows[k].sender_id,
                         file_content.rows[k].receiver_id>> = e}

\* the amounts of the rows K added up as floats, in the order of the file
RECURSIVE FloatTotal(_, _)
FloatTotal(K, acc) ==
    IF K = {} THEN acc
    ELSE LET k == CHOOSE i \in K : \A j \in K : i <= j
         IN  FloatTotal(K \ {k}, Fl(acc + file_content.rows[k].amount))

\* the amounts of the rows K added up exactly
RECURSIVE ExactTotal(_)
ExactTotal(K) ==
    IF K = {} THEN 0
    ELSE LET k == CHOOSE i \in K : TRUE
         IN  file_content.rows[k].amount + ExactTotal(K \ {k})

\* C23: the valid transfers of one ordered (sender, receiver) pair are one edge:
\* its tx_count is their number, its transactions are each of them once with its
\* amount, its total_amount is their amounts added up (the exact sum whenever
\* that is a float); rows that are not valid give no edge, no node and count in
\* no statistic.
C23_PairCollapsesToOneEdge ==
    parsed.error = "none" =>
        LET G == parsed.G
            rows == file_content.rows
        IN  /\ G.edges = {e \in FileAccounts \X FileAccounts : TransfersOf(e) # {}}
            /\ G.nodes = {rows[k].sender_id : k \in ValidRows}
                            \cup {rows[k].receiver_id : k \in ValidRows}
            /\ \A e \in G.edges :
                  LET K == TransfersOf(e)
                      txs == G.edge[e].transactions
                  IN  /\ G.edge[e].tx_count = Cardinality(K)
                      /\ Len(txs) = Cardinality(K)
                      /\ {txs[i].transaction_id : i \in 1..Len(txs)} = K
                      /\ \A i \in 1..Len(txs) :
                            txs[i].amount = rows[txs[i].transaction_id].amount
                      /\ G.edge[e].total_amount = FloatTotal(K, 0)
                      /\ ExactTotal(K) <= 2^MantissaBits =>
                            G.edge[e].total_amount = ExactTotal(K)
            /\ \A n \in G.nodes :
                  /\ G.node[n].tx_count_sent
                        = Cardinality({k \in ValidRows : rows[k].sender_id = n})
                  /\ G.node[n].tx_count_recv
                        = Cardinality({k \in ValidRows : rows[k].receiver_id = n})
            /\ parsed.metadata.total_transactions = Cardinality(ValidRows)

\* two transfers from 1 to itself are one edge, and a row that is not valid
\* names an account the graph does not have
C23_Witness ==
    /\ parsed.error = "none"
    /\ parsed.G.edges = {<<1, 1>>}
    /\ parsed.G.edge[<<1, 1>>].tx_count = 2
    /\ parsed.G.edge[<<1, 1>>].total_amount = 2
    /\ \E k \in 1..Len(file_content.rows) :
          /\ ~file_content.rows[k].valid
          /\ file_content.rows[k].receiver_id = 2
    /\ 2 \notin parsed.G.nodes

\* the values of f added up exactly
RECURSIVE ExactSumOver(_, _)
ExactSumOver(f, D) ==
    IF D = {} THEN 0
    ELSE LET x == CHOOSE y \in D : TRUE
         IN  f[x] + ExactSumOver(f, D \ {x})

ExactSum(f) == ExactSumOver(f, DOMAIN f)

\* the results of adding the values of f up as floats, one for every order
RECURSIVE FloatSumsOver(_, _, _)
FloatSumsOver(f, D, acc) ==
    IF D = {} THEN {acc}
    ELSE UNION {FloatSumsOver(f, D \ {x}, Fl(acc + f[x])) : x \in D}

FloatSums(f) == FloatSumsOver(f, DOMAIN f, 0)

\* two totals are the same when they are equal added up exactly, or equal added
\* up as floats in some order
SameTotal(f, g) ==
    \/ ExactSum(f) = ExactSum(g)
    \/ FloatSums(f) \cap FloatSums(g) # {}

TotalSent == [n \in parsed.G.nodes |-> parsed.G.node[n].total_sent]

TotalReceived == [n \in parsed.G.nodes |-> parsed.G.node[n].total_received]

TotalAmount == [e \in parsed.G.edges |-> parsed.G.edge[e].total_amount]

TxCount == [e \in parsed.G.edges |-> parsed.G.edge[e].tx_count]

\* the counts of the built graph agree with each other and with the metadata
CountsConserved ==
    /\ ExactSum(TxCount) = parsed.metadata.total_transactions
    /\ \A n \in parsed.G.nodes :
          parsed.G.node[n].tx_count_total
              = parsed.G.node[n].tx_count_sent + parsed.G.node[n].tx_count_recv
    /\ ExactSum([n \in parsed.G.nodes |-> parsed.G.node[n].tx_count_sent])
          = parsed.metadata.total_transactions
    /\ ExactSum([n \in parsed.G.nodes |-> parsed.G.node[n].tx_count_recv])
          = parsed.metadata.total_transactions
    /\ parsed.metadata.total_accounts = Cardinality(parsed.G.nodes)
    /\ parsed.metadata.total_edges = Cardinality(parsed.G.edges)

\* C27 (as claimed): the counts are conserved, and total_sent over all nodes,
\* total_received over all nodes and total_amount over all edges add up to the
\* same.
C27_GraphConservesTransactions ==
    parsed.error = "none" =>
        /\ CountsConserved
        /\ SameTotal(TotalSent, TotalReceived)
        /\ SameTotal(TotalSent, TotalAmount)

\* C27 (amended): the counts are conserved; total_sent over all nodes,
\* total_received over all nodes and total_amount over all edges are the sum of
\* the valid amounts, and so equal, whenever that sum is small enough for every
\* partial sum to be a float.
C27_ConservesWhenSumsAreExact ==
    parsed.error = "none" =>
        /\ CountsConserved
        /\ ExactTotal(ValidRows) <= 2^MantissaBits =>
              /\ ExactSum(TotalSent) = ExactTotal(ValidRows)
              /\ ExactSum(TotalReceived) = ExactTotal(ValidRows)
              /\ ExactSum(TotalAmount) = ExactTotal(ValidRows)

\* three transfers over three edges, one of them to the sender itself, whose
\* amounts add up without rounding
C27_Witness ==
    /\ parsed.error = "none"
    /\ Cardinality(parsed.G.edges) = 3
    /\ <<1, 1>> \in parsed.G.edges
    /\ parsed.G.node[1].tx_count_total = 4
    /\ ExactSum(TotalSent) = 3
    /\ ExactSum(TotalAmount) = 3

\* ------------------------------------- claims on _build_graph_viz_data

\* the direct neighbours of the suspicious accounts
SuspiciousNeighbours ==
    UNION {predecessors(viz_G, n) \cup successors(viz_G, n) : n \in suspicious_ids}

\* suspicious accounts come first, their direct neighbours next, other nodes last
VizPriorityOrder ==
    /\ ~(include_nodes \subseteq suspicious_ids) => suspicious_ids \subseteq include_nodes
    /\ ~(include_nodes \subseteq suspicious_ids \cup SuspiciousNeighbours) =>
          SuspiciousNeighbours \subseteq include_nodes

\* C24: the payload holds at most MAX_GRAPH_VIZ_NODES nodes and at most
\* MAX_GRAPH_VIZ_EDGES edges, and its nodes were admitted in the order
\* suspicious accounts, their direct neighbours, other nodes.
C24_VizPayloadCapped ==
    vpc = "done" =>
        /\ Cardinality(include_nodes) <= MAX_GRAPH_VIZ_NODES
        /\ Len(viz_edges) <= MAX_GRAPH_VIZ_EDGES
        /\ VizPriorityOrder

\* what holds of it: the edge cap, the order of admission, and the node cap for
\* everything but the suspicious accounts themselves
C24_CappedButForSuspicious ==
    vpc \notin {"off", "start"} =>
        /\ Cardinality(include_nodes) <= Max(MAX_GRAPH_VIZ_NODES, Cardinality(suspicious_ids))
        /\ suspicious_ids \subseteq include_nodes
        /\ Len(viz_edges) <= MAX_GRAPH_VIZ_EDGES
        /\ \A i \in 1..Len(viz_edges) :
              viz_edges[i][1] \in include_nodes /\ viz_edges[i][2] \in include_nodes
        /\ vpc = "done" => VizPriorityOrder

\* ------------------------------- claims on the classical path: determinism

\* the listing with edge k turned round
FlipEdge(edges, k) == [edges EXCEPT ![k] = <<edges[k][2], edges[k][1]>>]

\* the listing with edges k and k + 1 exchanged
SwapEdges(edges, k) == [edges EXCEPT ![k] = edges[k + 1], ![k + 1] = edges[k]]

\* the same undirected edges, each listed once from its lower to its higher end,
\* in ascending order
CanonicalListing(edges) == EdgeSeq({EdgeKey(edges[k]) : k \in 1..Len(edges)})

\* every listing of the same undirected edges: any order, any orientation
Listings(edges) ==
    LET n == Len(edges)
        perms == {p \in [1..n -> 1..n] : \A a, b \in 1..n : a # b => p[a] # p[b]}
    IN  {[k \in 1..n |-> IF k \in F THEN <<edges[p[k]][2], edges[p[k]][1]>> ELSE edges[p[k]]] :
            p \in perms, F \in SUBSET (1..n)}

\* C25: the classical baseline returns, for the same n and the same undirected
\* cost edges, the same partition and the same cut value however the edges are
\* listed: turned round, exchanged, in canonical form, and (up to three edges)
\* in every order and orientation there is; and the step-by-step run returns
\* what the function returns.
C25_ClassicalIndependentOfListing ==
    classical # <<>> =>
        /\ classical = _classical_greedy_maxcut(gn, gedges)
        /\ classical = _classical_greedy_maxcut(gn, CanonicalListing(gedges))
        /\ \A k \in 1..Len(gedges) :
              classical = _classical_greedy_maxcut(gn, FlipEdge(gedges, k))
        /\ \A k \in 1..(Len(gedges) - 1) :
              classical = _classical_greedy_maxcut(gn, SwapEdges(gedges, k))
        /\ Len(gedges) <= 3 =>
              \A L \in Listings(gedges) : classical = _classical_greedy_maxcut(gn, L)

\* the baseline has returned for a listing that is neither sorted nor oriented
\* from the lower to the higher end
C25_Witness ==
    /\ classical # <<>>
    /\ gn = 3
    /\ Len(gedges) = 3
    /\ \E k \in 1..Len(gedges) : gedges[k][1] > gedges[k][2]
    /\ \E k \in 1..(Len(gedges) - 1) : PairLess(EdgeKey(gedges[k + 1]), EdgeKey(gedges[k]))

====
